---- MODULE Spec2Model ----
(***************************************************************************)
(* State-machine model of the sqlight wrapper (src/sqlight/__init__.py):   *)
(* the Sql query value, the lru-cached template reader, the _SafeCursor    *)
(* proxy and the Db handle with its pre-execute hook, on top of a small    *)
(* model of the sqlite3 connection the handle owns.                        *)
(***************************************************************************)
EXTENDS Integers, Sequences, FiniteSets, TLC

\* ------------------------------------------------------------------ bounds
MaxSqls == 1        \* names a run binds Sql values to
MaxRows == 1        \* distinct rows the INSERT statements can add
MaxMany == 2        \* longest parameter sequence given to executemany
MaxFresh == 129     \* template files 1..MaxFresh besides file 0 (cache runs)

\* ------------------------------------------------ program constants, inputs
LruMaxSize == 128   \* functools.lru_cache default maxsize (bare @lru_cache)

None == "None"
SqlIds == 1..MaxSqls
DbIds == {"db"}     \* the name a run binds its Db handles to, one after the other
Rows == 1..MaxRows
Dirs == {"D1", "D2"}
Whitespace == {" ", "\n"}

_HOOKED_METHODS == {"execute", "executemany", "executescript"}
DbMethods == {"execute", "executemany", "executescript", "fetchone", "fetchall", "commit"}
CursorAttrs == _HOOKED_METHODS \cup {"rowcount", "arraysize"}

\* Statement texts.  A text is a sequence of tokens; whitespace tokens are
\* what str.strip() removes from a template file.
InsertText == <<"INSERT 1", "INSERT 2", "INSERT 3">>
SelectText == "SELECT"
SyntaxErrorText == "SYNTAX ERROR"
BeginText == "BEGIN"
CommitText == "COMMIT"
RollbackText == "ROLLBACK"
EmptyText == <<>>
ScriptText == <<InsertText[1], " ", SelectText>>    \* two statements in one text
RawQueries ==
    {<<InsertText[r]>> : r \in Rows}
       \cup {<<SelectText>>, <<SyntaxErrorText>>, EmptyText, ScriptText}
       \cup {<<BeginText>>, <<CommitText>>, <<RollbackText>>}
FileContents == {<<SelectText, "\n">>, <<" ", InsertText[1]>>}

\* Template files on disk that no step rewrites: test.sql (file 0) exists in
\* both directories with different statements; every other file holds SELECT.
DefaultContent(filename, dir) ==
    IF filename = 0 /\ dir = "D2" THEN <<" ", InsertText[1]>> ELSE <<SelectText, "\n">>

VARIABLES sqls, dbs, disk, pending, cache, files, exc, lastOp, tracked

vars == <<sqls, dbs, disk, pending, cache, files, exc, lastOp, tracked>>

\* ------------------------------------------------------------ pure helpers
RECURSIVE LStrip(_)
LStrip(t) == IF t # <<>> /\ Head(t) \in Whitespace THEN LStrip(Tail(t)) ELSE t

RECURSIVE RStrip(_)
RStrip(t) ==
    IF t # <<>> /\ t[Len(t)] \in Whitespace THEN RStrip(SubSeq(t, 1, Len(t) - 1)) ELSE t

\* str.strip()
Strip(t) == RStrip(LStrip(t))

\* Path.read_text() of template_path / filename
ReadText(filename, dir) ==
    IF <<filename, dir>> \in DOMAIN files THEN files[<<filename, dir>>]
    ELSE DefaultContent(filename, dir)

CacheIndex(key) ==
    IF \E i \in 1..Len(cache) : cache[i].key = key
    THEN CHOOSE i \in 1..Len(cache) : cache[i].key = key
    ELSE 0

Remove(seq, i) == SubSeq(seq, 1, i - 1) \o SubSeq(seq, i + 1, Len(seq))

\* Mutant: a template reader without the cache
ReadSqlTemplate_NoCache(filename, dir) ==
    [text |-> Strip(ReadText(filename, dir)), read |-> TRUE, cache |-> cache]

\* @lru_cache _read_sql_template(filename, template_path): a hit returns the
\* stored text and makes the entry the most recent one; a miss reads and
\* strips the file, stores it and evicts the least recent entry when full.
\* cache is kept least-recent first.
_read_sql_template(filename, dir) ==
    LET key == <<filename, dir>>
        i == CacheIndex(key)
    IN  IF i # 0
        THEN [text |-> cache[i].text, read |-> FALSE,
              cache |-> Append(Remove(cache, i), cache[i])]
        ELSE LET text == Strip(ReadText(filename, dir))
                 added == Append(cache, [key |-> key, text |-> text])
             IN  [text |-> text, read |-> TRUE,
                  cache |-> IF Len(added) > LruMaxSize THEN Tail(added) ELSE added]

\* ---------------------------------------------------------------- class Sql
Unbound == [kind |-> "unbound"]

\* Sql.__init__: stores the loader and the keyword arguments, whoever calls it.
\* kind, given, first and changes are history: the constructor used, the
\* directory passed to it, and what Track records.
SqlInit(kind, loader, query, store) ==
    [kind |-> kind, _is_templated |-> FALSE, _query_loader |-> loader,
     query |-> query, _store |-> store,
     given |-> IF "template_path" \in DOMAIN store THEN store["template_path"] ELSE None,
     first |-> None, changes |-> 0]

\* Sql.raw(query): the loader is a closure that returns query
SqlRaw(query) == SqlInit("raw", "lambda", query, <<>>)

\* Sql.template(filename, path=path)
SqlTemplate(filename, path) ==
    [SqlInit("template", "_read_sql_template", <<>>,
             [k \in {"template_path", "filename"} |->
                 IF k = "template_path" THEN path ELSE filename])
     EXCEPT !._is_templated = TRUE]

\* dict.get("template_path")
StoreGet(sql) ==
    IF "template_path" \in DOMAIN sql._store THEN sql._store["template_path"] ELSE None

\* Sql.has_template_path
has_template_path(sql) == sql._is_templated /\ StoreGet(sql) # None

\* History kept beside a query: how often its stored directory changed
\* (counted up to 2) and the default of the first handle with one that ran it.
Track(old, new, handleDir) ==
    [new EXCEPT !.changes = IF StoreGet(new) # StoreGet(old)
                            THEN (IF @ < 2 THEN @ + 1 ELSE 2) ELSE @,
                !.first = IF @ = None THEN handleDir ELSE @]

\* Mutant: set_template_path without the check that the query is templated
SetTemplatePath_Unchecked(sql, dir) ==
    [sql EXCEPT !._store = [k \in DOMAIN sql._store \cup {"template_path"} |->
                               IF k = "template_path" THEN dir ELSE sql._store[k]]]

\* Sql.set_template_path(template_path)
set_template_path(sql, dir) ==
    IF sql._is_templated
    THEN [sql EXCEPT !._store = [k \in DOMAIN sql._store \cup {"template_path"} |->
                                    IF k = "template_path" THEN dir ELSE sql._store[k]]]
    ELSE sql

\* Mutant: load_query without the check for a missing directory
LoadQuery_NoCheck(sql) ==
    IF sql._query_loader = "lambda"
    THEN [err |-> None, text |-> sql.query, dir |-> None, read |-> FALSE,
          cache |-> cache]
    ELSE IF sql._query_loader = "_read_sql_template"
    THEN LET r == _read_sql_template(sql._store["filename"], sql._store["template_path"])
         IN  [err |-> None, text |-> r.text, dir |-> sql._store["template_path"],
              read |-> r.read, cache |-> r.cache]
    ELSE [err |-> "TypeError", text |-> <<>>, dir |-> None, read |-> FALSE,
          cache |-> cache]

\* Sql.load_query(): [err, text, dir, read, cache].  dir is the directory the
\* template was looked up in, read tells whether the file was read; text is
\* <<>> when err is set.
load_query(sql) ==
    IF sql._is_templated /\ ~has_template_path(sql)
    THEN [err |-> "ValueError", text |-> <<>>, dir |-> None, read |-> FALSE,
          cache |-> cache]
    ELSE IF sql._query_loader = "lambda"
    THEN [err |-> None, text |-> sql.query, dir |-> None, read |-> FALSE,
          cache |-> cache]
    ELSE IF sql._query_loader = "_read_sql_template"
    THEN LET r == _read_sql_template(sql._store["filename"], sql._store["template_path"])
         IN  [err |-> None, text |-> r.text, dir |-> sql._store["template_path"],
              read |-> r.read, cache |-> r.cache]
    ELSE \* a loader that is not callable
         [err |-> "TypeError", text |-> <<>>, dir |-> None, read |-> FALSE,
          cache |-> cache]

\* ------------------------------------------------- the sqlite3 connection
\* What the handle's connection and its one shared cursor do with a text
\* (Python 3.11 sqlite3; default isolation level: an implicit BEGIN before
\* INSERT outside a transaction; isolation_level None: none).
\* e = [db, disk, pending]: the handle, the rows durable in the database file
\* and the rows of the open transaction.  db.held is the row the shared cursor
\* is positioned on and has not handed out yet, 0 when its statement is done.
\* Each operator returns [err, e, rows].

\* The statements of a text, in order: whitespace between, before and after
\* them does not count.
NotWhitespace(t) == t \notin Whitespace
Stmts(text) == SelectSeq(text, NotWhitespace)

IsInsert(stmt) == \E r \in 1..Len(InsertText) : InsertText[r] = stmt
RowOf(stmt) == CHOOSE r \in 1..Len(InsertText) : InsertText[r] = stmt
IsTxControl(stmt) == stmt \in {BeginText, CommitText, RollbackText}

RECURSIVE Sorted(_)
Sorted(S) ==
    IF S = {} THEN <<>>
    ELSE LET m == CHOOSE x \in S : \A y \in S : x <= y IN <<m>> \o Sorted(S \ {m})

\* the rows the connection sees, the rows of S past row p, the first row of S
Visible(e) == e.disk \cup e.pending
After(S, p) == {x \in S : x > p}
First(S) == IF S = {} THEN 0 ELSE CHOOSE x \in S : \A y \in S : x <= y

\* what fetching from the shared cursor yields now: the row it holds, then the
\* rows past it that the connection sees at that moment (the SELECT is
\* stepped row by row, so later inserts and rollbacks show)
Unfetched(e) ==
    IF e.db.held = 0 THEN <<>>
    ELSE <<e.db.held>> \o Sorted(After(Visible(e), e.db.held))

\* a cursor method raising: the cursor's statement is reset
Fail(err, e, rowcount) ==
    [err |-> err, e |-> [e EXCEPT !.db.rowcount = rowcount, !.db.held = 0], rows |-> <<>>]

\* a cursor method returning the cursor
Return(e) == [err |-> None, e |-> e, rows |-> Unfetched(e)]

\* what an INSERT leaves, begun telling whether it runs inside a transaction
Insert(e, r, begun) ==
    [e EXCEPT !.disk = IF begun THEN @ ELSE @ \cup {r},
              !.pending = IF begun THEN @ \cup {r} ELSE @]

Begun(e) == e.db.isolation_level # None \/ e.db.in_transaction

\* COMMIT and ROLLBACK of the open transaction
Committed(e) ==
    [e EXCEPT !.disk = @ \cup e.pending, !.pending = {}, !.db.in_transaction = FALSE]
RolledBack(e) == [e EXCEPT !.pending = {}, !.db.in_transaction = FALSE]

\* sqlite running BEGIN, COMMIT or ROLLBACK: [err, e].  BEGIN inside a
\* transaction and COMMIT or ROLLBACK outside one are errors.
TxControl(e, stmt) ==
    IF stmt = BeginText
    THEN IF e.db.in_transaction THEN [err |-> "OperationalError", e |-> e]
         ELSE [err |-> None, e |-> [e EXCEPT !.db.in_transaction = TRUE]]
    ELSE IF ~e.db.in_transaction THEN [err |-> "OperationalError", e |-> e]
    ELSE IF stmt = CommitText THEN [err |-> None, e |-> Committed(e)]
    ELSE [err |-> None, e |-> RolledBack(e)]

\* the cursor after its statement was BEGIN, COMMIT or ROLLBACK and left t
ExecuteTxControl(t) ==
    IF t.err # None THEN Fail(t.err, t.e, -1)
    ELSE Return([t.e EXCEPT !.db.rowcount = -1, !.db.held = 0])

\* sqlite3.Cursor.execute of the statement stmt
ExecuteStmt(e, stmt) ==
        IF e.db.state = "closed" THEN Fail("ProgrammingError", e, -1)
        ELSE IF stmt = SyntaxErrorText THEN Fail("OperationalError", e, -1)
        ELSE IF IsInsert(stmt)
        THEN LET b == [e EXCEPT !.db.in_transaction = Begun(e)]
             IN  IF RowOf(stmt) \in Visible(e)
                 THEN Fail("IntegrityError", b, -1)
                 ELSE Return([Insert(b, RowOf(stmt), Begun(e))
                                EXCEPT !.db.rowcount = 1, !.db.held = 0])
        ELSE IF IsTxControl(stmt) THEN ExecuteTxControl(TxControl(e, stmt))
        ELSE \* SELECT: the cursor is stepped to the first row
             Return([e EXCEPT !.db.rowcount = -1, !.db.held = First(Visible(e))])

\* sqlite3.Cursor.execute of a text with the statements stmts: an empty text
\* runs nothing, a first statement that does not compile raises, and so does
\* a text with more than one statement
ExecuteStmts(e, stmts) ==
        IF e.db.state = "closed" THEN Fail("ProgrammingError", e, -1)
        ELSE IF stmts = <<>> THEN Return([e EXCEPT !.db.rowcount = -1, !.db.held = 0])
        ELSE IF Head(stmts) = SyntaxErrorText THEN Fail("OperationalError", e, -1)
        ELSE IF Len(stmts) > 1 THEN Fail("ProgrammingError", e, -1)
        ELSE ExecuteStmt(e, Head(stmts))

\* sqlite3.Cursor.execute(text)
CursorExecute(e, text) == ExecuteStmts(e, Stmts(text))

\* sqlite3.Cursor.executemany of the statement stmt with n parameter tuples;
\* only INSERT is a DML statement
ExecuteManyStmt(e, stmt, n) ==
        IF e.db.state = "closed" THEN Fail("ProgrammingError", e, -1)
        ELSE IF stmt = SyntaxErrorText THEN Fail("OperationalError", e, -1)
        ELSE IF ~IsInsert(stmt) THEN Fail("ProgrammingError", e, -1)
        ELSE LET b == [e EXCEPT !.db.in_transaction = Begun(e)]
                 r == RowOf(stmt)
             IN  IF n = 0 THEN Return([b EXCEPT !.db.rowcount = 0, !.db.held = 0])
                 ELSE IF r \in Visible(e) THEN Fail("IntegrityError", b, -1)
                 ELSE IF n = 1
                 THEN Return([Insert(b, r, Begun(e)) EXCEPT !.db.rowcount = 1, !.db.held = 0])
                 ELSE \* the second run of the same INSERT hits the row of the first
                      Fail("IntegrityError", Insert(b, r, Begun(e)), -1)

\* sqlite3.Cursor.executemany of a text with the statements stmts: as execute,
\* but an empty text is no DML statement
ExecuteManyStmts(e, stmts, n) ==
        IF e.db.state = "closed" THEN Fail("ProgrammingError", e, -1)
        ELSE IF stmts = <<>> THEN Fail("ProgrammingError", e, -1)
        ELSE IF Head(stmts) = SyntaxErrorText THEN Fail("OperationalError", e, -1)
        ELSE IF Len(stmts) > 1 THEN Fail("ProgrammingError", e, -1)
        ELSE ExecuteManyStmt(e, Head(stmts), n)

\* sqlite3.Cursor.executemany(text, n parameter tuples)
CursorExecuteMany(e, text, n) == ExecuteManyStmts(e, Stmts(text), n)

\* sqlite3.Connection.commit(): nothing to do outside a transaction
ConnCommit(e) ==
    IF e.db.state = "closed" THEN [err |-> "ProgrammingError", e |-> e, rows |-> <<>>]
    ELSE [err |-> None, rows |-> <<>>, e |-> Committed(e)]

\* one statement of a script run on c: no implicit BEGIN, so an INSERT is
\* durable at once unless the script or the caller opened a transaction
ExecuteScriptStmt(c, stmt) ==
        IF stmt = SyntaxErrorText THEN [err |-> "OperationalError", e |-> c, rows |-> <<>>]
        ELSE IF IsInsert(stmt)
        THEN IF RowOf(stmt) \in Visible(c)
             THEN [err |-> "IntegrityError", e |-> c, rows |-> <<>>]
             ELSE [err |-> None, rows |-> <<>>,
                   e |-> Insert(c, RowOf(stmt), c.db.in_transaction)]
        ELSE IF IsTxControl(stmt)
        THEN [err |-> TxControl(c, stmt).err, e |-> TxControl(c, stmt).e, rows |-> <<>>]
        ELSE [err |-> None, e |-> c, rows |-> <<>>]

\* the statements of a script run one after the other up to the first that
\* raises; r is what the statement before left
RECURSIVE ExecuteScriptStmts(_, _)
ExecuteScriptStmts(r, stmts) ==
    IF r.err # None \/ stmts = <<>> THEN r
    ELSE ExecuteScriptStmts(ExecuteScriptStmt(r.e, Head(stmts)), Tail(stmts))

\* executescript returning the cursor: its rowcount and the statement it
\* held before the script are untouched, so it still yields that statement's
\* unfetched rows
ScriptReturn(r) == IF r.err # None THEN r ELSE Return(r.e)

\* sqlite3.Cursor.executescript(text): commits what is pending, then runs the
\* statements of the script with no implicit transaction
CursorExecuteScript(e, text) ==
    IF e.db.state = "closed" THEN [err |-> "ProgrammingError", e |-> e, rows |-> <<>>]
    ELSE ScriptReturn(ExecuteScriptStmts(ConnCommit(e), Stmts(text)))

\* sqlite3.Connection.close(): an open transaction is rolled back and the
\* cursor can hand out nothing any more
ConnClose(e) ==
    [e EXCEPT !.db.state = "closed", !.db.in_transaction = FALSE, !.pending = {},
              !.db.held = 0]

\* sqlite3.Connection.execute(text): a cursor of its own runs the statement,
\* the shared cursor keeps its rowcount and its statement
ConnExecute(e, text) ==
    [CursorExecute(e, text) EXCEPT !.e.db.rowcount = e.db.rowcount,
                                   !.e.db.held = e.db.held]

\* --------------------------------------------------------- class _SafeCursor
\* attributes of the wrapped sqlite3.Cursor other than its methods
CursorAttr(db, name) == IF name = "rowcount" THEN db.rowcount ELSE 1

\* Mutant: a proxy that blocks execute alone
SafeCursorGetAttr_OnlyExecute(db, name) ==
    IF name = "execute"
    THEN [err |-> "AttributeError", value |-> 0]
    ELSE [err |-> None, value |-> CursorAttr(db, name)]

\* _SafeCursor.__getattr__(name): [err, value]
SafeCursorGetAttr(db, name) ==
    IF name \in _HOOKED_METHODS
    THEN [err |-> "AttributeError", value |-> 0]
    ELSE [err |-> None, value |-> CursorAttr(db, name)]

\* ------------------------------------------------------------------ class Db
NoDb == [state |-> "unbound", scope |-> "none", _sql_templates_dir |-> None, autocommit |-> FALSE,
         isolation_level |-> "", in_transaction |-> FALSE, rowcount |-> -1, held |-> 0,
         ran |-> {}, kept |-> {}, unc |-> {}, began |-> FALSE]

\* Db.__init__(database, sql_templates_dir=dir, autocommit=autocommit).
\* scope, autocommit, ran, kept, unc and began are history: where the handle's
\* with block is, the flag the handle was opened with, the rows its statements
\* added, those of them no ROLLBACK has undone, those added through execute
\* with no commit since, and whether a BEGIN statement was sent to it.
DbInit(dir, autocommit) ==
    [NoDb EXCEPT !.state = "open", !.scope = "in", !._sql_templates_dir = dir,
                 !.autocommit = autocommit,
                 !.isolation_level = IF autocommit THEN None ELSE ""]

\* Mutant: __exit__ that leaves the connection open
DbExit_NoClose(e) == [e |-> e, ret |-> None]

\* Db.__exit__(*args): [e, ret]; ret is what the with statement gets back
DbExit(e) == [e |-> ConnClose(e), ret |-> None]

\* Mutant: a hook that injects whenever the handle has a directory
PreExecuteHook_Always(db, sql) ==
    IF db._sql_templates_dir # None
    THEN set_template_path(sql, db._sql_templates_dir)
    ELSE sql

\* Db._pre_execute_hook(sql)
_pre_execute_hook(db, sql) ==
    IF ~has_template_path(sql) /\ db._sql_templates_dir # None
    THEN set_template_path(sql, db._sql_templates_dir)
    ELSE sql

\* Mutant: __getattribute__ that wraps execute alone
Wrapped_OnlyExecute(name) == name = "execute"

\* Db.__getattribute__(name): is the attribute handed out wrapped in the hook
Wrapped(name) == name \in _HOOKED_METHODS

\* the cursor method a Db method ends in: fetchone, fetchall and commit call
\* self.execute
EntryPoint(name) == IF name \in {"fetchone", "fetchall", "commit"} THEN "execute" ELSE name

\* self.cursor._safe_cursor.<name>(text, ...)
CursorCall(e, name, text, n) ==
    IF name = "execute" THEN CursorExecute(e, text)
    ELSE IF name = "executemany" THEN CursorExecuteMany(e, text, n)
    ELSE CursorExecuteScript(e, text)

\* what a call leaves: q is what load_query returned, r what the cursor did
Outcome(name, hooked, q, r) ==
    [err |-> r.err, sql |-> hooked, e |-> r.e, rows |-> r.rows, cache |-> q.cache,
     hook |-> Wrapped(name), dir |-> q.dir, read |-> q.read,
     entry |-> IF q.err # None THEN None ELSE name, sent |-> q.text]

\* Db.execute / executemany / executescript: the cursor is called with
\* sql.load_query(), q, unless that raised
Body(e, name, hooked, q, n) ==
    Outcome(name, hooked, q,
            IF q.err # None THEN [err |-> q.err, e |-> e, rows |-> <<>>]
            ELSE CursorCall(e, name, q.text, n))

\* the wrapper of __getattribute__ after its hook: attr(*args)
AfterHook(e, name, hooked, n) == Body(e, name, hooked, load_query(hooked), n)

\* Db.execute / executemany / executescript reached through __getattribute__:
\* the hook when the name is wrapped, then the method.
\* [err, sql, e, rows, cache, hook, dir, read, entry, sent]
Hooked(e, name, sql, n) ==
    AfterHook(e, name, IF Wrapped(name) THEN _pre_execute_hook(e.db, sql) ELSE sql, n)

\* conn.commit() after an execute that did not raise; commit returns None, so
\* the rows of the statement are not handed to the caller
ThenCommit(x) ==
    IF x.err # None THEN x ELSE [x EXCEPT !.e = ConnCommit(x.e).e, !.rows = <<>>]

\* cursor.fetchone(), no row being <<>>: the row the cursor holds is handed
\* out and the cursor is stepped to the next one
ThenFetchOne(x) ==
    IF x.err # None \/ x.e.db.held = 0 THEN x
    ELSE [x EXCEPT !.rows = <<x.e.db.held>>,
                   !.e.db.held = First(After(Visible(x.e), x.e.db.held))]

\* cursor.fetchall(): every row is handed out and the statement is done
ThenFetchAll(x) == IF x.err # None THEN x ELSE [x EXCEPT !.e.db.held = 0]

\* Mutant: commit that runs the statement and does not commit
DbCommit_NoCommit(e, sql) == [Hooked(e, "execute", sql, 0) EXCEPT !.rows = <<>>]

\* Db.commit(sql): execute, then conn.commit()
DbCommit(e, sql) == ThenCommit(Hooked(e, "execute", sql, 0))

\* Db.fetchone(sql): execute(sql).fetchone()
DbFetchOne(e, sql) == ThenFetchOne(Hooked(e, "execute", sql, 0))

\* Db.fetchall(sql): execute(sql).fetchall()
DbFetchAll(e, sql) == ThenFetchAll(Hooked(e, "execute", sql, 0))

\* a call db.<name>(sql, ...) of one of the six methods
DbCall(e, name, sql, n) ==
    IF name = "commit" THEN DbCommit(e, sql)
    ELSE IF name = "fetchone" THEN DbFetchOne(e, sql)
    ELSE IF name = "fetchall" THEN DbFetchAll(e, sql)
    ELSE Hooked(e, name, sql, n)

\* ------------------------------------------------------------------ the run
TrackedKey == <<0, "D1">>

\* History of the cache entry of TrackedKey: whether it was resolved, the text
\* its last resolution returned and the other keys resolved since.
Observe(key, text) ==
    IF key = TrackedKey THEN [resolved |-> TRUE, text |-> text, others |-> {}]
    ELSE IF tracked.resolved THEN [tracked EXCEPT !.others = @ \cup {key}]
    ELSE tracked

Init ==
    /\ sqls = [s \in SqlIds |-> Unbound]
    /\ dbs = [h \in DbIds |-> NoDb]
    /\ disk = {}
    /\ pending = {}
    /\ cache = <<>>
    /\ files = [k \in {TrackedKey} |-> DefaultContent(0, "D1")]
    /\ exc = None
    /\ lastOp = [op |-> "none"]
    /\ tracked = [resolved |-> FALSE, text |-> <<>>, others |-> {}]

\* handles are opened one after the other, each in its own with block; the
\* name of a handle whose block was left can be bound to a new one
FreeDb(h) ==
    /\ dbs[h].scope # "in"
    /\ \A g \in DbIds : dbs[g].state # "open"

Engine(h) == [db |-> dbs[h], disk |-> disk, pending |-> pending]

\* sql = Sql.raw(query), the name sql bound anew
NewRaw(s, query) ==
    /\ exc = None
    /\ sqls' = [sqls EXCEPT ![s] = SqlRaw(query)]
    /\ lastOp' = [op |-> "Sql.raw", s |-> s, err |-> None]
    /\ UNCHANGED <<dbs, disk, pending, cache, files, exc, tracked>>

\* sql = Sql.template(filename, path=path)
NewTemplate(s, filename, path) ==
    /\ exc = None
    /\ sqls' = [sqls EXCEPT ![s] = SqlTemplate(filename, path)]
    /\ lastOp' = [op |-> "Sql.template", s |-> s, err |-> None]
    /\ UNCHANGED <<dbs, disk, pending, cache, files, exc, tracked>>

\* sql = Sql(...): the constructor called directly, with a loader that is not
\* callable
NewDirect(s) ==
    /\ exc = None
    /\ sqls' = [sqls EXCEPT ![s] = SqlInit("direct", "Ellipsis", <<>>, <<>>)]
    /\ lastOp' = [op |-> "Sql", s |-> s, err |-> None]
    /\ UNCHANGED <<dbs, disk, pending, cache, files, exc, tracked>>

\* sql.set_template_path(dir)
SetTemplatePath(s, dir) ==
    /\ exc = None /\ sqls[s].kind # "unbound"
    /\ sqls' = [sqls EXCEPT ![s] = Track(@, set_template_path(@, dir), None)]
    /\ lastOp' = [op |-> "set_template_path", s |-> s, dir |-> dir, err |-> None,
                  was |-> StoreGet(sqls[s])]
    /\ UNCHANGED <<dbs, disk, pending, cache, files, exc, tracked>>

\* sql.load_query()
LoadQuery(s) ==
    /\ exc = None /\ sqls[s].kind # "unbound"
    /\ LET q == load_query(sqls[s])
       IN  /\ cache' = q.cache
           /\ exc' = q.err
           /\ tracked' = IF q.dir # None
                         THEN Observe(<<sqls[s]._store["filename"], q.dir>>, q.text)
                         ELSE tracked
           /\ lastOp' = [op |-> "load_query", s |-> s, err |-> q.err, text |-> q.text,
                         dir |-> q.dir, read |-> q.read]
    /\ UNCHANGED <<sqls, dbs, disk, pending, files>>

\* _read_sql_template(filename, dir) called as load_query calls it
ReadTemplate(filename, dir) ==
    /\ exc = None
    /\ LET r == _read_sql_template(filename, dir)
       IN  /\ cache' = r.cache
           /\ tracked' = Observe(<<filename, dir>>, r.text)
           /\ lastOp' = [op |-> "_read_sql_template", key |-> <<filename, dir>>,
                         err |-> None, text |-> r.text, read |-> r.read,
                         was |-> tracked]
    /\ UNCHANGED <<sqls, dbs, disk, pending, files, exc>>

\* the template file of TrackedKey is rewritten
WriteFile(content) ==
    /\ exc = None
    /\ files[TrackedKey] # content
    /\ files' = [files EXCEPT ![TrackedKey] = content]
    /\ lastOp' = [op |-> "write", err |-> None]
    /\ UNCHANGED <<sqls, dbs, disk, pending, cache, exc, tracked>>

\* with Db(database, sql_templates_dir=dir, autocommit=autocommit) as db:
Open(h, dir, autocommit) ==
    /\ exc = None /\ FreeDb(h)
    /\ dbs' = [dbs EXCEPT ![h] = DbInit(dir, autocommit)]
    /\ lastOp' = [op |-> "Db", h |-> h, err |-> None]
    /\ UNCHANGED <<sqls, disk, pending, cache, files, exc, tracked>>

\* the rows a call that left x added to the table, whether it raised or not
Added(x) == (x.e.disk \cup x.e.pending) \ (disk \cup pending)

\* the rows a call that left x removed from the table: a ROLLBACK undid them
Undone(x) == (disk \cup pending) \ (x.e.disk \cup x.e.pending)

HasBegin(text) == \E i \in 1..Len(text) : text[i] = BeginText

\* did the call name that left x run a commit: Db.commit, executescript on an
\* open connection (it commits before its script) or a COMMIT statement
CommitRan(db, name, x, text, reached) ==
    \/ name = "commit" /\ x.err = None
    \/ name = "executescript" /\ reached /\ db.state = "open"
    \/ reached /\ x.err = None /\ Stmts(text) = <<CommitText>>

\* the handle after a call that sent text and left x: its history brought up
\* to date; reached tells whether the text got to the connection
Ran(db, name, x, text, reached) ==
    [x.e.db EXCEPT
       !.ran = @ \cup Added(x),
       !.kept = (@ \cup Added(x)) \ Undone(x),
       !.began = @ \/ (reached /\ HasBegin(text)),
       !.unc = IF CommitRan(db, name, x, text, reached) THEN {}
               ELSE IF EntryPoint(name) = "execute" THEN @ \cup Added(x) ELSE @]

\* the state after the call db.<name>(sql, ...) on handle h that left x
Called(h, name, s, n, x) ==
    /\ sqls' = [sqls EXCEPT ![s] = Track(@, x.sql, dbs[h]._sql_templates_dir)]
    /\ dbs' = [dbs EXCEPT ![h] = Ran(@, name, x, x.sent, x.entry # None)]
    /\ disk' = x.e.disk
    /\ pending' = x.e.pending
    /\ cache' = x.cache
    /\ exc' = x.err
    /\ tracked' = IF x.dir # None
                  THEN Observe(<<x.sql._store["filename"], x.dir>>, x.sent)
                  ELSE tracked
    /\ lastOp' = [op |-> name, h |-> h, s |-> s, n |-> n, err |-> x.err,
                  hook |-> x.hook, dir |-> x.dir, entry |-> x.entry,
                  sent |-> x.sent, rows |-> x.rows]
    /\ UNCHANGED files

\* db.<name>(sql) or db.executemany(sql, n parameter tuples)
Call(h, name, s, n) ==
    /\ exc = None /\ dbs[h].scope # "none" /\ sqls[s].kind # "unbound"
    /\ Called(h, name, s, n, DbCall(Engine(h), name, sqls[s], n))

\* db.cursor.<name>
CursorGet(h, name) ==
    /\ exc = None /\ dbs[h].scope # "none"
    /\ LET a == SafeCursorGetAttr(dbs[h], name)
       IN  /\ exc' = a.err
           /\ lastOp' = [op |-> "cursor", h |-> h, name |-> name, err |-> a.err,
                         value |-> a.value, entry |-> None]
    /\ UNCHANGED <<sqls, dbs, disk, pending, cache, files, tracked>>

\* the state after db.conn.execute(text) on handle h that left x
ConnExecuted(h, text, x) ==
    /\ dbs' = [dbs EXCEPT ![h] = Ran(@, "conn.execute", x, text, TRUE)]
    /\ disk' = x.e.disk
    /\ pending' = x.e.pending
    /\ exc' = x.err
    /\ lastOp' = [op |-> "conn.execute", h |-> h, err |-> x.err, hook |-> FALSE,
                  entry |-> "execute", sent |-> text]
    /\ UNCHANGED <<sqls, cache, files, tracked>>

\* db.conn.execute(text): the connection is a public attribute of the handle
ConnExecuteCall(h, text) ==
    /\ exc = None /\ dbs[h].scope # "none"
    /\ ConnExecuted(h, text, ConnExecute(Engine(h), text))

\* the state after __exit__ on handle h returned x
Exited(h, x) ==
    /\ dbs' = [dbs EXCEPT ![h] = [x.e.db EXCEPT !.scope = "exited"]]
    /\ disk' = x.e.disk
    /\ pending' = x.e.pending
    /\ exc' = IF x.ret # None THEN None ELSE exc
    /\ lastOp' = [op |-> "__exit__", h |-> h, err |-> None, exc |-> exc]
    /\ UNCHANGED <<sqls, cache, files, tracked>>

\* leaving the with block of h, normally or with the exception exc in flight:
\* __exit__ runs and the exception goes on unless __exit__ returned a true value
ExitScope(h) ==
    /\ dbs[h].scope = "in"
    /\ Exited(h, DbExit(Engine(h)))

\* the caller handles the exception in flight (try/except, pytest.raises)
Catch ==
    /\ exc # None
    /\ exc' = None
    /\ lastOp' = [op |-> "except", err |-> exc]
    /\ UNCHANGED <<sqls, dbs, disk, pending, cache, files, tracked>>

\* Every operation with every input.
Next ==
    \/ \E s \in SqlIds, q \in RawQueries : NewRaw(s, q)
    \/ \E s \in SqlIds, path \in Dirs \cup {None} : NewTemplate(s, 0, path)
    \/ \E s \in SqlIds : NewDirect(s)
    \/ \E s \in SqlIds, dir \in Dirs : SetTemplatePath(s, dir)
    \/ \E s \in SqlIds : LoadQuery(s)
    \/ \E f \in 0..MaxFresh : ReadTemplate(f, "D1")
    \/ \E c \in FileContents : WriteFile(c)
    \/ \E h \in DbIds, dir \in Dirs \cup {None}, a \in BOOLEAN : Open(h, dir, a)
    \/ \E h \in DbIds, name \in DbMethods, s \in SqlIds :
          \E n \in IF name = "executemany" THEN 0..MaxMany ELSE {0} : Call(h, name, s, n)
    \/ \E h \in DbIds, name \in CursorAttrs : CursorGet(h, name)
    \/ \E h \in DbIds, q \in RawQueries : ConnExecuteCall(h, q)
    \/ \E h \in DbIds : ExitScope(h)
    \/ Catch

Spec == Init /\ [][Next]_vars

\* Callers that build queries and use them without a handle.
NextSql ==
    \/ \E s \in SqlIds, q \in RawQueries : NewRaw(s, q)
    \/ \E s \in SqlIds, path \in Dirs \cup {None} : NewTemplate(s, 0, path)
    \/ \E s \in SqlIds : NewDirect(s)
    \/ \E s \in SqlIds, dir \in Dirs : SetTemplatePath(s, dir)
    \/ \E s \in SqlIds : LoadQuery(s)
    \/ Catch

SpecSql == Init /\ [][NextSql]_vars

\* Callers that run queries through the six methods of handles and touch
\* neither the query's directory nor the connection themselves.
NextHandles ==
    \/ \E s \in SqlIds : NewRaw(s, <<SelectText>>)
    \/ \E s \in SqlIds, path \in Dirs \cup {None} : NewTemplate(s, 0, path)
    \/ \E s \in SqlIds : LoadQuery(s)
    \/ \E h \in DbIds, dir \in Dirs \cup {None} : Open(h, dir, FALSE)
    \/ \E h \in DbIds, name \in DbMethods, s \in SqlIds : Call(h, name, s, 1)
    \/ \E h \in DbIds : ExitScope(h)
    \/ Catch

SpecHandles == Init /\ [][NextHandles]_vars

\* Callers that run literal statements on handles without a template
\* directory, through the handle, its cursor and its connection.
NextEngine ==
    \/ \E s \in SqlIds, q \in RawQueries : NewRaw(s, q)
    \/ \E h \in DbIds, a \in BOOLEAN : Open(h, None, a)
    \/ \E h \in DbIds, name \in DbMethods, s \in SqlIds :
          \E n \in IF name = "executemany" THEN 0..MaxMany ELSE {0} : Call(h, name, s, n)
    \/ \E h \in DbIds, name \in CursorAttrs : CursorGet(h, name)
    \/ \E h \in DbIds, q \in RawQueries : ConnExecuteCall(h, q)
    \/ \E h \in DbIds : ExitScope(h)
    \/ Catch

SpecEngine == Init /\ [][NextEngine]_vars

\* Callers of the template reader: file 0, the newest file read so far and the
\* next one, in directory D1, while file 0 is rewritten.
RECURSIVE MaxFile(_, _)
MaxFile(i, m) ==
    IF i > Len(cache) THEN m
    ELSE MaxFile(i + 1, IF cache[i].key[1] > m THEN cache[i].key[1] ELSE m)

Newest == MaxFile(1, 0)

NextCache ==
    \/ \E f \in {0, Newest, Newest + 1} \cap 0..MaxFresh : ReadTemplate(f, "D1")
    \/ \E c \in FileContents : WriteFile(c)

SpecCache == Init /\ [][NextCache]_vars

\* ------------------------------------------------------------------ claims
IsCall == lastOp.op \in DbMethods
TemplateCall == IsCall /\ sqls[lastOp.s].kind = "template"

\* C1 as stated: in each of the six handle operations the hook runs before
\* load_query and a templated query is resolved in the directory given to
\* Sql.template when one was given, and otherwise in the handle's
\* sql_templates_dir when the handle has one.
C1_Original ==
    TemplateCall =>
        /\ lastOp.hook
        /\ sqls[lastOp.s].given # None => lastOp.dir = sqls[lastOp.s].given
        /\ (sqls[lastOp.s].given = None /\ dbs[lastOp.h]._sql_templates_dir # None)
              => lastOp.dir = dbs[lastOp.h]._sql_templates_dir

\* C1 amended: in each of the six handle operations the hook runs before
\* load_query and a templated query is resolved in the directory given to
\* Sql.template when one was given, and otherwise in the sql_templates_dir of
\* the first handle with one that ran the query (this handle, unless an
\* earlier one injected its default); no default replaces a given directory.
C1_DirectoryInjection ==
    /\ \A s \in SqlIds :
          (sqls[s].kind = "template" /\ sqls[s].given # None)
             => sqls[s]._store["template_path"] = sqls[s].given
    /\ TemplateCall =>
          /\ lastOp.hook
          /\ lastOp.dir = IF sqls[lastOp.s].given # None THEN sqls[lastOp.s].given
                          ELSE sqls[lastOp.s].first
          /\ lastOp.dir # None =>
                /\ lastOp.err # "ValueError"
                /\ lastOp.sent = Strip(ReadText(sqls[lastOp.s]._store["filename"], lastOp.dir))

C1_Witness ==
    /\ TemplateCall /\ lastOp.op = "fetchall" /\ lastOp.err = None
    /\ sqls[lastOp.s].given = "D2" /\ lastOp.dir = "D2"
    /\ dbs[lastOp.h]._sql_templates_dir = "D1"

\* C2: load_query on a templated query without a directory raises ValueError;
\* so does each of the six operations of a handle without sql_templates_dir,
\* before the cursor is called, leaving the database, the open transaction
\* and the handle as they were.
C2_MissingDirectory ==
    [][/\ (lastOp'.op = "load_query" /\ sqls'[lastOp'.s].kind = "template"
           /\ StoreGet(sqls'[lastOp'.s]) = None)
             => (lastOp'.err = "ValueError" /\ exc' = "ValueError")
       /\ (lastOp'.op \in DbMethods /\ sqls'[lastOp'.s].kind = "template"
           /\ sqls[lastOp'.s].kind = "template" /\ StoreGet(sqls[lastOp'.s]) = None
           /\ dbs[lastOp'.h]._sql_templates_dir = None)
             => /\ lastOp'.err = "ValueError" /\ exc' = "ValueError"
                /\ lastOp'.entry = None
                /\ UNCHANGED <<disk, pending, dbs, sqls>>]_vars

C2_Witness ==
    /\ TemplateCall /\ lastOp.op = "commit" /\ lastOp.err = "ValueError"
    /\ dbs[lastOp.h].state = "open" /\ dbs[lastOp.h].in_transaction /\ pending # {}

\* C3 as stated: a Sql value comes from Sql.raw or Sql.template only; calling
\* the constructor directly raises TypeError and yields no value.
C3_OnlyNamedConstructors ==
    /\ \A s \in SqlIds : sqls[s].kind \in {"unbound", "raw", "template"}
    /\ lastOp.op = "Sql" => lastOp.err = "TypeError"

\* C4: on db.cursor, execute, executemany and executescript raise
\* AttributeError in every state of the handle and run nothing; any other
\* attribute is the wrapped cursor's.
C4_SafeCursor ==
    [][lastOp'.op = "cursor" =>
          /\ UNCHANGED <<dbs, disk, pending, sqls>>
          /\ IF lastOp'.name \in {"execute", "executemany", "executescript"}
             THEN lastOp'.err = "AttributeError" /\ exc' = "AttributeError"
             ELSE /\ lastOp'.err = None /\ exc' = None
                  /\ lastOp'.name = "rowcount" => lastOp'.value = dbs[lastOp'.h].rowcount]_vars

C4_Witness ==
    /\ lastOp.op = "cursor" /\ lastOp.name = "executemany"
    /\ lastOp.err = "AttributeError" /\ dbs[lastOp.h].state = "closed"

\* C5 as stated: every statement that reaches the engine from the handle, its
\* cursor or its connection went through _pre_execute_hook first.
C5_NoBypass ==
    (lastOp.op \in DbMethods \cup {"cursor", "conn.execute"} /\ lastOp.entry # None)
       => lastOp.hook

\* C6: once the with block of a handle is left, normally or by an exception,
\* its connection is closed and stays closed, and the exception goes on to
\* the caller.
C6_ScopedRelease ==
    /\ \A h \in DbIds : dbs[h].scope = "exited" => dbs[h].state = "closed"
    /\ lastOp.op = "__exit__" => exc = lastOp.exc

C6_Witness ==
    /\ lastOp.op = "__exit__" /\ lastOp.exc = "OperationalError"
    /\ dbs[lastOp.h].state = "closed" /\ exc = "OperationalError"

\* C7 as stated: without autocommit, the rows added through execute with no
\* commit since are absent from the database when the with block is left,
\* also when it is left by an exception; after Db.commit every row the handle
\* added is in the database; with autocommit every row the handle added is in
\* the database at once.
C7_Original ==
    /\ (lastOp.op = "__exit__" /\ ~dbs[lastOp.h].autocommit)
          => dbs[lastOp.h].unc \cap disk = {}
    /\ (lastOp.op = "commit" /\ lastOp.err = None) => dbs[lastOp.h].ran \subseteq disk
    /\ \A h \in DbIds : dbs[h].autocommit => dbs[h].ran \subseteq disk

IsTrackedRead ==
    /\ lastOp.op = "_read_sql_template" /\ lastOp.key = TrackedKey
    /\ lastOp.was.resolved

\* C8 as stated: once a pair was resolved, every later resolution of it
\* returns the same text without reading the file, whatever was rewritten or
\* resolved in between.
C8_Original == IsTrackedRead => (lastOp.text = lastOp.was.text /\ ~lastOp.read)

\* C8 amended: once a pair was resolved, a later resolution of it returns the
\* same text without reading the file, whatever was rewritten in between,
\* when fewer than 128 distinct other pairs were resolved since its last
\* resolution.
C8_CacheWithinCapacity ==
    (IsTrackedRead /\ Cardinality(lastOp.was.others) < LruMaxSize)
       => (lastOp.text = lastOp.was.text /\ ~lastOp.read)

C8_Witness ==
    /\ IsTrackedRead /\ Cardinality(lastOp.was.others) = LruMaxSize - 1
    /\ ~lastOp.read /\ lastOp.text # Strip(files[TrackedKey])

IsSet == lastOp.op = "set_template_path"

\* C9 as stated: set_template_path leaves a raw query as it is, sets the
\* directory of a templated query that has none, and leaves the directory of
\* a templated query that has one.
C9_Original ==
    IsSet =>
        /\ sqls[lastOp.s].kind = "raw" =>
              /\ sqls[lastOp.s]._store = <<>>
              /\ load_query(sqls[lastOp.s]).text = sqls[lastOp.s].query
        /\ sqls[lastOp.s].kind = "template" =>
              StoreGet(sqls[lastOp.s]) = IF lastOp.was = None THEN lastOp.dir ELSE lastOp.was

\* C9 amended: set_template_path leaves a raw query as it is and sets the
\* directory of a templated query, replacing the one it has.
C9_SetTemplatePath ==
    IsSet =>
        /\ sqls[lastOp.s].kind = "raw" =>
              /\ sqls[lastOp.s]._store = <<>>
              /\ load_query(sqls[lastOp.s]).text = sqls[lastOp.s].query
        /\ sqls[lastOp.s].kind = "template" => StoreGet(sqls[lastOp.s]) = lastOp.dir

C9_Witness ==
    /\ IsSet /\ sqls[lastOp.s].kind = "template"
    /\ lastOp.was = "D1" /\ lastOp.dir = "D2" /\ StoreGet(sqls[lastOp.s]) = "D2"

\* C10: under the six handle operations a query keeps its shape and the
\* directory of a templated query changes at most once, from none to the
\* default of the first handle with one that ran it, which later handles
\* with another default resolve it in too.
C10_SingleAssignment ==
    /\ \A s \in SqlIds : sqls[s].kind # "unbound" =>
          /\ sqls[s]._is_templated = (sqls[s].kind = "template")
          /\ sqls[s].kind = "raw" => sqls[s]._store = <<>>
          /\ sqls[s].changes <= 1
          /\ sqls[s].changes = 1 =>
                (sqls[s].given = None /\ sqls[s].first # None /\ StoreGet(sqls[s]) = sqls[s].first)
          /\ (sqls[s].kind = "template" /\ sqls[s].given = None)
                => StoreGet(sqls[s]) = sqls[s].first
    /\ (TemplateCall /\ sqls[lastOp.s].given = None) => lastOp.dir = sqls[lastOp.s].first

C10_Witness ==
    /\ TemplateCall /\ sqls[lastOp.s].given = None /\ sqls[lastOp.s].first = "D1"
    /\ dbs[lastOp.h]._sql_templates_dir = "D2" /\ lastOp.dir = "D1" /\ lastOp.err = None

====
